---- MODULE Spec2Model ----
(***************************************************************************)
(* Cascading call forwarding server (src/server.js).                       *)
(*                                                                         *)
(* The server is an Express application with two call-control webhooks,    *)
(* /voice/start and /voice/handle-result, and an asynchronous notifier,    *)
(* notifyWebhookAllNumbersFailed.  The only state carried between the      *)
(* webhooks of one call is the attempt index in the callback URL, which    *)
(* lives on the telephony platform's side.                                 *)
(*                                                                         *)
(* A value that the code reads from the environment, from a query or from  *)
(* a request body is either Undefined or a string Str(text).  The text of  *)
(* a string that the code parses or formats (the attempt query parameter,  *)
(* the DIAL_TIMEOUT environment value, the callback URL's index) is a      *)
(* sequence of characters; every other text is a plain string.  A property *)
(* that is absent from a JavaScript object is a key absent from the DOMAIN *)
(* of the function that models the object; reading it yields Undefined.    *)
(* The promise jobs of the notifier are steps of their own: the settling   *)
(* of fetch(), which resumes the notifier, and the handler's catch.        *)
(***************************************************************************)
EXTENDS Integers, Sequences, FiniteSets

VARIABLES env, FALLBACK_NUMBERS, DIAL_TIMEOUT, WEBHOOK_URL, WEBHOOK_API_KEY,
          phase, outstanding, dialed, faithful, notifyCalls,
          lastEvent, response, dispatches, strays, now

vars == <<env, FALLBACK_NUMBERS, DIAL_TIMEOUT, WEBHOOK_URL, WEBHOOK_API_KEY,
          phase, outstanding, dialed, faithful, notifyCalls,
          lastEvent, response, dispatches, strays, now>>

config == <<env, FALLBACK_NUMBERS, DIAL_TIMEOUT, WEBHOOK_URL, WEBHOOK_API_KEY>>

-----------------------------------------------------------------------------
(* Bounds *)

\* number of outcome events that are not the platform's callback of the
\* outstanding dial (duplicates, out-of-order or forged requests)
MaxStray == 1

\* the last instant of the clock: the clock moves at most this many times
MaxClock == 1

\* the calls whose webhooks are followed
Calls == {"CA1", "CA2"}

-----------------------------------------------------------------------------
(* JavaScript values *)

\* undefined, the value of a missing property, array slot or environment
\* variable; it is no string, and differs from the string 'undefined'
Undefined == [type |-> "undefined"]

\* a string, with its text
Str(text) == [type |-> "string", value |-> text]

\* ToString(v), which parseInt applies to its argument
ToString(v) ==
    IF v = Undefined
    THEN <<"u", "n", "d", "e", "f", "i", "n", "e", "d">>
    ELSE v.value

\* obj.key
Get(obj, key) == IF key \in DOMAIN obj THEN obj[key] ELSE Undefined

\* Boolean(v) for the string-or-undefined values of process.env
Truthy(v) == v # Undefined /\ v # Str("")

\* Array.prototype.filter(Boolean)
RECURSIVE FilterBoolean(_)
FilterBoolean(array) ==
    IF array = <<>> THEN <<>>
    ELSE IF Truthy(Head(array))
         THEN <<Head(array)>> \o FilterBoolean(Tail(array))
         ELSE FilterBoolean(Tail(array))

DecimalDigits == <<"0", "1", "2", "3", "4", "5", "6", "7", "8", "9">>

\* the characters parseInt skips at the start of its argument
\* (StrWhiteSpaceChar: WhiteSpace and LineTerminator).  A character that has
\* no escape in a TLA+ string is written by the name of its code point; such
\* a name is one element of a text and stands for that one character.
WhiteSpace ==
    {" ", "\t", "\n", "\r", "\f", "U+000B", "U+00A0", "U+FEFF", "U+1680",
     "U+2000", "U+2001", "U+2002", "U+2003", "U+2004", "U+2005", "U+2006",
     "U+2007", "U+2008", "U+2009", "U+200A", "U+2028", "U+2029", "U+202F",
     "U+205F", "U+3000"}

\* value of a digit character in the radix, or -1
DigitValue(ch, radix) ==
    LET lower == <<"a", "b", "c", "d", "e", "f">>
        upper == <<"A", "B", "C", "D", "E", "F">>
        dec == {d \in 1..10 : DecimalDigits[d] = ch}
        hx  == {d \in 1..6 : lower[d] = ch \/ upper[d] = ch}
    IN  IF dec # {} THEN (CHOOSE d \in dec : TRUE) - 1
        ELSE IF radix = 16 /\ hx # {} THEN (CHOOSE d \in hx : TRUE) + 9
        ELSE -1

\* the tuple of the values of a function on 1..n
Elements(f) == SubSeq(f, 1, Len(f))

\* the first position of the Boolean sequence b that holds FALSE, or
\* Len(b) + 1
FirstFalse(b) ==
    CHOOSE k \in 1..(Len(b) + 1) :
        /\ k = Len(b) + 1 \/ ~b[k]
        /\ \A i \in 1..(k - 1) : b[i]

\* the last position of the Boolean sequence b that holds FALSE, or 0
LastFalse(b) ==
    CHOOSE k \in 0..Len(b) :
        /\ k = 0 \/ ~b[k]
        /\ \A i \in (k + 1)..Len(b) : b[i]

StripLeft(s) ==
    SubSeq(s, FirstFalse([i \in 1..Len(s) |-> s[i] \in WhiteSpace]), Len(s))

\* the values of the longest prefix of radix digits of s
ParseDigits(s, radix) ==
    LET v == Elements([i \in 1..Len(s) |-> DigitValue(s[i], radix)])
    IN  SubSeq(v, 1, FirstFalse([i \in 1..Len(v) |-> v[i] >= 0]) - 1)

-----------------------------------------------------------------------------
(* Numbers.  A Number of the program is NaN, an infinity, or an integer     *)
(* that a double represents, kept as its sign and the decimal digits of    *)
(* its magnitude, most significant first and <<0>> for zero.  Arithmetic   *)
(* on magnitudes works on digit sequences, where <<>> is zero, and rounds  *)
(* to the nearest double, ties to the even significand, as the code's      *)
(* arithmetic does.                                                        *)

NaN == [nan |-> TRUE, inf |-> FALSE, neg |-> FALSE, digits |-> <<>>]

Infinity(neg) == [nan |-> FALSE, inf |-> TRUE, neg |-> neg, digits |-> <<>>]

Integer(neg, digits) ==
    [nan |-> FALSE, inf |-> FALSE, neg |-> neg,
     digits |-> IF digits = <<>> THEN <<0>> ELSE digits]

\* the digits of a natural number, <<>> for zero
RECURSIVE NatDigits(_)
NatDigits(n) ==
    IF n = 0 THEN <<>> ELSE Append(NatDigits(n \div 10), n % 10)

\* the Number of a small integer
Num(n) == Integer(n < 0, NatDigits(IF n < 0 THEN 0 - n ELSE n))

\* the natural number of at most nine digits
RECURSIVE DigitsToNat(_)
DigitsToNat(d) ==
    IF d = <<>> THEN 0
    ELSE 10 * DigitsToNat(SubSeq(d, 1, Len(d) - 1)) + d[Len(d)]

\* the Number is an integer of at most nine digits
IsSmall(x) == ~x.nan /\ ~x.inf /\ Len(x.digits) <= 9

\* the integer of a small Number
IntOf(x) == IF x.neg THEN 0 - DigitsToNat(x.digits) ELSE DigitsToNat(x.digits)

Zeros(n) == Elements([i \in 1..n |-> 0])

\* without the leading zeros
Trim(d) == SubSeq(d, FirstFalse([i \in 1..Len(d) |-> d[i] = 0]), Len(d))

\* the digits of d \div 2, for d # <<>>: the carry into a position is the
\* parity of the digit before it
Halve(d) ==
    LET carry(i) == IF i = 1 THEN 0 ELSE d[i - 1] % 2
        q == Elements([i \in 1..Len(d) |-> (10 * carry(i) + d[i]) \div 2])
    IN  IF q[1] = 0 THEN Tail(q) ELSE q

\* one binary digit of st[1] moves to the front of st[2]
HalveStep(st) ==
    IF st[1] = <<>> THEN st
    ELSE <<Halve(st[1]), <<st[1][Len(st[1])] % 2>> \o st[2]>>

\* HalveStep, k times
RECURSIVE HalveTimes(_, _)
HalveTimes(st, k) ==
    IF k = 0 THEN st
    ELSE IF k = 1 THEN HalveStep(st)
    ELSE LET half == HalveTimes(st, k \div 2)
         IN  IF half[1] = <<>> THEN half
             ELSE HalveTimes(half, k - (k \div 2))

\* the binary digits of the decimal digits d, most significant first
ToBits(d) == HalveTimes(<<d, <<>>>>, 4 * Len(d))[2]

\* the binary digits of hexadecimal digit values
HexBits(h) ==
    LET pow == <<8, 4, 2, 1>>
    IN  Trim([i \in 1..(4 * Len(h)) |->
                 (h[((i - 1) \div 4) + 1] \div pow[((i - 1) % 4) + 1]) % 2])

\* the digits of 2 * d + bit: the carry out of a position is 1 when its
\* digit is 5 or more
Double(d, bit) ==
    IF d = <<>> THEN (IF bit = 1 THEN <<1>> ELSE <<>>)
    ELSE LET carry(i) == IF i = Len(d) THEN bit
                         ELSE IF d[i + 1] >= 5 THEN 1 ELSE 0
             r == Elements([i \in 1..Len(d) |-> (2 * d[i] + carry(i)) % 10])
         IN  IF d[1] >= 5 THEN <<1>> \o r ELSE r

\* Double over the binary digits b, from the first
RECURSIVE DoubleAll(_, _)
DoubleAll(d, b) ==
    IF b = <<>> THEN d
    ELSE IF Len(b) = 1 THEN Double(d, b[1])
    ELSE LET left == DoubleAll(d, SubSeq(b, 1, Len(b) \div 2))
             rest == SubSeq(b, (Len(b) \div 2) + 1, Len(b))
         IN  IF left = <<>> THEN DoubleAll(<<>>, rest)
             ELSE DoubleAll(left, rest)

\* the decimal digits of the binary digits b
FromBits(b) == DoubleAll(<<>>, b)

SignificandBits == 53

\* the binary digits of the double nearest to the binary digits b: the
\* first 53 stay, rounded up when the rest is more than a half, or is a half
\* and the 53rd is odd
RoundBits(b) ==
    IF Len(b) <= SignificandBits THEN b
    ELSE LET m      == SubSeq(b, 1, SignificandBits)
             sticky == \E i \in (SignificandBits + 2)..Len(b) : b[i] = 1
             up     == /\ b[SignificandBits + 1] = 1
                       /\ sticky \/ m[SignificandBits] = 1
             p      == LastFalse([i \in 1..Len(m) |-> m[i] = 1])
             tail   == Zeros(Len(b) - SignificandBits)
         IN  IF ~up THEN m \o tail
             ELSE IF p = 0 THEN <<1>> \o Zeros(SignificandBits) \o tail
             ELSE Elements([i \in 1..SignificandBits |->
                               IF i < p THEN m[i]
                               ELSE IF i = p THEN 1 ELSE 0]) \o tail

\* doubles end below 2^1024
MaxBits == 1024

\* the Number of binary digits
NumberOfBits(neg, b) ==
    IF Len(b) > MaxBits + 1 THEN Infinity(neg)
    ELSE LET r == RoundBits(b)
         IN  IF Len(r) > MaxBits THEN Infinity(neg)
             ELSE Integer(neg, FromBits(r))

\* the Number nearest to the integer with sign and decimal digits d; 10^15
\* is below 2^53 and 10^309 is beyond every double
NumberOf(neg, d) ==
    IF Len(d) <= 15 THEN Integer(neg, d)
    ELSE IF Len(d) > 309 THEN Infinity(neg)
    ELSE LET b == ToBits(d)
         IN  IF Len(b) <= SignificandBits THEN Integer(neg, d)
             ELSE NumberOfBits(neg, b)

\* parseInt(string) without a radix argument, on the text of the string
parseInt(arg) ==
    LET t    == StripLeft(arg)
        neg  == t # <<>> /\ Head(t) = "-"
        u    == IF t # <<>> /\ Head(t) \in {"-", "+"} THEN Tail(t) ELSE t
        isHx == Len(u) >= 2 /\ u[1] = "0" /\ u[2] \in {"x", "X"}
        body == IF isHx THEN Tail(Tail(u)) ELSE u
        ds   == ParseDigits(body, IF isHx THEN 16 ELSE 10)
    IN  IF ds = <<>> THEN NaN
        ELSE IF isHx THEN NumberOfBits(neg, HexBits(ds))
        ELSE NumberOf(neg, Trim(ds))

\* p || dflt : NaN, 0 and -0 are falsy
OrDefault(p, dflt) == IF p.nan \/ p.digits = <<0>> THEN Num(dflt) ELSE p

\* the digits of d + 1
Increment(d) ==
    LET p == LastFalse([i \in 1..Len(d) |-> d[i] = 9])
    IN  IF p = 0 THEN <<1>> \o Zeros(Len(d))
        ELSE Elements([i \in 1..Len(d) |->
                          IF i < p THEN d[i]
                          ELSE IF i = p THEN d[i] + 1 ELSE 0])

\* the digits of d - 1, for d above zero
Decrement(d) ==
    LET p == LastFalse([i \in 1..Len(d) |-> d[i] = 0])
    IN  Trim([i \in 1..Len(d) |->
                 IF i < p THEN d[i] ELSE IF i = p THEN d[i] - 1 ELSE 9])

\* x + 1
Plus1(x) ==
    IF x.nan \/ x.inf THEN x
    ELSE IF x.neg /\ x.digits # <<0>>
         THEN LET m == Decrement(x.digits)
              IN  NumberOf(m # <<>>, m)
         ELSE NumberOf(FALSE, Increment(Trim(x.digits)))

\* x < n for a small natural number n
Less(x, n) ==
    IF x.nan THEN FALSE
    ELSE IF ~IsSmall(x) THEN x.neg
    ELSE IntOf(x) < n

\* array[i] for a Number i: the elements are the properties "0", "1", ...
Index(array, i) ==
    IF IsSmall(i) /\ IntOf(i) >= 0 /\ IntOf(i) < Len(array)
    THEN array[IntOf(i) + 1]
    ELSE Undefined

\* the characters of decimal digits
DigitChars(d) == Elements([i \in 1..Len(d) |-> DecimalDigits[d[i] + 1]])

\* decimal text of a natural number
NatToString(n) == IF n = 0 THEN <<"0">> ELSE DigitChars(NatDigits(n))

\* the digits d rounded down to k significant digits
RoundDown(d, k) == Elements([i \in 1..Len(d) |-> IF i <= k THEN d[i] ELSE 0])

\* the digits d rounded up to k significant digits
RoundUp(d, k) ==
    Increment(SubSeq(d, 1, k)) \o Zeros(Len(d) - k)

\* the integer with digits c is read back as the double with digits d
ReadsBack(c, d) == NumberOf(FALSE, c) = Integer(FALSE, d)

\* some integer of k significant digits is read back as d
HasDigits(d, k) == ReadsBack(RoundDown(d, k), d) \/ ReadsBack(RoundUp(d, k), d)

\* the least k in a..b with HasDigits(d, k), which holds from that k on
RECURSIVE LeastDigits(_, _, _)
LeastDigits(d, a, b) ==
    IF a = b THEN a
    ELSE IF HasDigits(d, (a + b) \div 2)
         THEN LeastDigits(d, a, (a + b) \div 2)
         ELSE LeastDigits(d, ((a + b) \div 2) + 1, b)

\* d is nearer to RoundUp(d, k) than to RoundDown(d, k), or as near with an
\* odd k-th digit
NearerUp(d, k) ==
    LET rest == SubSeq(d, k + 1, Len(d))
    IN  /\ rest # <<>>
        /\ \/ rest[1] > 5
           \/ /\ rest[1] = 5
              /\ \/ \E i \in 2..Len(rest) : rest[i] # 0
                 \/ d[k] % 2 = 1

\* the integer with the fewest significant digits that is read back as the
\* double with digits d, and the nearest to it among these
Shortest(d) ==
    IF Len(d) <= 15 THEN d
    ELSE LET k    == LeastDigits(d, 1, IF Len(d) < 17 THEN Len(d) ELSE 17)
             down == RoundDown(d, k)
             up   == RoundUp(d, k)
         IN  IF ~ReadsBack(up, d) THEN down
             ELSE IF ~ReadsBack(down, d) THEN up
             ELSE IF NearerUp(d, k) THEN up ELSE down

\* Number::toString of a positive integer: its digits up to 21 of them,
\* and beyond that the significant digits with an exponent
MagnitudeToString(d) ==
    LET c == Shortest(d)
        k == LastFalse([i \in 1..Len(c) |-> c[i] = 0])
    IN  IF Len(c) <= 21 THEN DigitChars(c)
        ELSE DigitChars(SubSeq(c, 1, 1))
                 \o (IF k > 1 THEN <<".">> \o DigitChars(SubSeq(c, 2, k))
                     ELSE <<>>)
                 \o <<"e", "+">> \o NatToString(Len(c) - 1)

\* `${x}` for a Number x
NumberToString(x) ==
    IF x.nan THEN <<"N", "a", "N">>
    ELSE IF x.inf
         THEN (IF x.neg THEN <<"-">> ELSE <<>>)
                  \o <<"I", "n", "f", "i", "n", "i", "t", "y">>
    ELSE IF x.digits = <<0>> THEN <<"0">>
    ELSE (IF x.neg THEN <<"-">> ELSE <<>>) \o MagnitudeToString(x.digits)

-----------------------------------------------------------------------------
(* Process configuration, read once at start-up *)

\* the values a PHONE_NUMBER_i variable takes: unset, or a number
PhoneValues(i) == {Undefined, Str(<<"A", "B", "C">>[i])}

\* the values of DIAL_TIMEOUT: unset, or a text
TimeoutValues == {Undefined, Str(<<"3", "0">>)}

UrlValues == {Undefined, Str("https://n8n.example/webhook")}

KeyValues == {Undefined, Str("secret")}

DefaultTimeout == 20

\* variant: only unset slots are removed (x => x !== undefined); an empty
\* slot stays in the list
FallbackNumbersOfDefined(e) ==
    SelectSeq(<<e.PHONE_NUMBER_1, e.PHONE_NUMBER_2, e.PHONE_NUMBER_3>>,
              LAMBDA v : v # Undefined)

\* const FALLBACK_NUMBERS = [...].filter(Boolean)
FallbackNumbersOf(e) ==
    FilterBoolean(<<e.PHONE_NUMBER_1, e.PHONE_NUMBER_2, e.PHONE_NUMBER_3>>)

\* const DIAL_TIMEOUT = parseInt(process.env.DIAL_TIMEOUT) || 20
DialTimeoutOf(e) ==
    OrDefault(parseInt(ToString(e.DIAL_TIMEOUT)), DefaultTimeout)

N == Len(FALLBACK_NUMBERS)

-----------------------------------------------------------------------------
(* Call-control directives (TwiML) *)

\* <Response><Dial action="/voice/handle-result?attempt=a" timeout=t>
\*   <Number>n</Number></Dial></Response>
Dial(a, t, n) == [verb |-> "Dial", action |-> a, timeout |-> t, number |-> n]

\* <Response><Hangup/></Response>
Hangup == [verb |-> "Hangup"]

NoResponse == [verb |-> "none"]

\* the requests of one call: Twilio posts the call's metadata in the body
Body(c) == [CallSid |-> c, From |-> "caller", To |-> "agent"]

BodyWith(c, status) ==
    IF status = Undefined THEN Body(c)
    ELSE [CallSid |-> c, From |-> "caller", To |-> "agent",
          DialCallStatus |-> status]

\* req.query for ?attempt=a
Query(a) == [attempt |-> Str(a)]

NoQuery == <<>>

-----------------------------------------------------------------------------
(* /voice/start *)

\* variant: the first directive reports to the callback of the second attempt
StartTwimlCallbackOne ==
    Dial(<<"1">>, DIAL_TIMEOUT, Index(FALLBACK_NUMBERS, Num(0)))

\* variant: the first dial uses the default timeout, not the configured one
StartTwimlDefaultTimeout ==
    Dial(<<"0">>, Num(DefaultTimeout), Index(FALLBACK_NUMBERS, Num(0)))

StartTwiml == Dial(<<"0">>, DIAL_TIMEOUT, Index(FALLBACK_NUMBERS, Num(0)))

-----------------------------------------------------------------------------
(* /voice/handle-result *)

\* variant: the attempt index is a process-wide count of the dial directives
\* issued, not the index of the callback URL
AttemptOfProcessCounter(query) ==
    Num(Len(dialed["CA1"]) + Len(dialed["CA2"]) - 1)

\* variant: without the default; NaN + 1 < length is false, so an index that
\* does not parse fails the bound test like an index past the list
AttemptOfNoDefault(query) ==
    IF parseInt(ToString(Get(query, "attempt"))).nan
    THEN Num(Len(FALLBACK_NUMBERS))
    ELSE parseInt(ToString(Get(query, "attempt")))

\* const attempt = parseInt(req.query.attempt) || 0
AttemptOf(query) ==
    OrDefault(parseInt(ToString(Get(query, "attempt"))), 0)

\* variant: the connected value is misspelt
IsCompletedAnswered(dialStatus) == dialStatus = Str("answered")

\* variant: a cancelled dial is taken for the end of the call as well
IsCompletedOrCanceled(dialStatus) ==
    dialStatus = Str("completed") \/ dialStatus = Str("canceled")

\* dialStatus === 'completed'
IsCompleted(dialStatus) == dialStatus = Str("completed")

\* variant: the attempt index is not advanced
NextAttemptSame(attempt) == attempt

\* variant: the attempt index is advanced by two
NextAttemptSkips(attempt) == Plus1(Plus1(attempt))

\* const nextAttempt = attempt + 1
NextAttempt(attempt) == Plus1(attempt)

\* variant: the bound on the next index is off by one
HasNextInclusive(nextAttempt) ==
    Less(nextAttempt, Len(FALLBACK_NUMBERS) + 1)

\* variant: a process-wide record of a notification already sent stops the
\* cascade of later events
HasNextUntilNotified(nextAttempt) ==
    Less(nextAttempt, Len(FALLBACK_NUMBERS)) /\ dispatches = <<>>

\* variant: the end of the list is recognized by equality only
HasNextNotLast(nextAttempt) == nextAttempt # Num(Len(FALLBACK_NUMBERS))

\* nextAttempt < FALLBACK_NUMBERS.length
HasNext(nextAttempt) == Less(nextAttempt, Len(FALLBACK_NUMBERS))

\* variant: the notifier is called after every failed attempt
ExhaustedOnAnyFailure(query, body) ==
    ~IsCompleted(Get(body, "DialCallStatus"))

\* variant: a record of the calls already notified suppresses a second
\* notification for the same call
ExhaustedOnce(query, body) ==
    /\ ~IsCompleted(Get(body, "DialCallStatus"))
    /\ ~HasNext(NextAttempt(AttemptOf(query)))
    /\ notifyCalls[Get(body, "CallSid")] = 0

\* the else branch: all numbers failed
Exhausted(query, body) ==
    /\ ~IsCompleted(Get(body, "DialCallStatus"))
    /\ ~HasNext(NextAttempt(AttemptOf(query)))

\* variant: the callback URL keeps the index of the attempt that just failed
RedialTwimlStaleCallback(nextAttempt) ==
    LET x        == nextAttempt
        previous == IF x.nan \/ x.inf THEN x
                    ELSE IF x.neg \/ x.digits = <<0>>
                         THEN NumberOf(TRUE, Increment(Trim(x.digits)))
                         ELSE NumberOf(FALSE, Decrement(x.digits))
    IN  Dial(NumberToString(previous), DIAL_TIMEOUT,
             Index(FALLBACK_NUMBERS, nextAttempt))

\* the directive built when the next number is tried
RedialTwiml(nextAttempt) ==
    Dial(NumberToString(nextAttempt), DIAL_TIMEOUT,
         Index(FALLBACK_NUMBERS, nextAttempt))

\* the response body of the handler
HandleResultTwiml(query, body) ==
    IF IsCompleted(Get(body, "DialCallStatus")) THEN Hangup
    ELSE IF HasNext(NextAttempt(AttemptOf(query)))
         THEN RedialTwiml(NextAttempt(AttemptOf(query)))
         ELSE Hangup

-----------------------------------------------------------------------------
(* notifyWebhookAllNumbersFailed *)

\* variant: only the API key is checked
NotConfiguredKeyOnly == ~Truthy(WEBHOOK_API_KEY)

\* variant: only the URL is checked
NotConfiguredUrlOnly == ~Truthy(WEBHOOK_URL)

\* !WEBHOOK_URL || !WEBHOOK_API_KEY
NotConfigured == ~Truthy(WEBHOOK_URL) \/ ~Truthy(WEBHOOK_API_KEY)

\* variant: the attempt count is the index of the last attempt
PayloadCountsFromZero(callData) ==
    [event            |-> "all_numbers_unavailable",
     timestamp        |-> now',
     callSid          |-> Get(callData, "CallSid"),
     from             |-> Get(callData, "From"),
     to               |-> Get(callData, "To"),
     attemptedNumbers |-> FALLBACK_NUMBERS,
     totalAttempts    |-> Len(FALLBACK_NUMBERS) - 1,
     dialStatus       |-> Get(callData, "DialCallStatus")]

\* variant: the payload reports the numbers dialled in the call so far
PayloadOfDialed(callData) ==
    [event            |-> "all_numbers_unavailable",
     timestamp        |-> now',
     callSid          |-> Get(callData, "CallSid"),
     from             |-> Get(callData, "From"),
     to               |-> Get(callData, "To"),
     attemptedNumbers |-> dialed[Get(callData, "CallSid")],
     totalAttempts    |-> Len(dialed[Get(callData, "CallSid")]),
     dialStatus       |-> Get(callData, "DialCallStatus")]

\* the body of the request; timestamp is the instant new Date() reads while
\* the handler runs (its ISO text is an injective rendering of the instant
\* and is parsed nowhere)
Payload(callData) ==
    [event            |-> "all_numbers_unavailable",
     timestamp        |-> now',
     callSid          |-> Get(callData, "CallSid"),
     from             |-> Get(callData, "From"),
     to               |-> Get(callData, "To"),
     attemptedNumbers |-> FALLBACK_NUMBERS,
     totalAttempts    |-> Len(FALLBACK_NUMBERS),
     dialStatus       |-> Get(callData, "DialCallStatus")]

\* variant: the request has settled when the handler goes on (the handler
\* awaits the notifier)
RequestAwaited(callData) ==
    [url     |-> WEBHOOK_URL,
     apiKey  |-> WEBHOOK_API_KEY,
     payload |-> Payload(callData),
     state   |-> "delivered",
     logged  |-> "success"]

\* the outbound request made by fetch(), with the state of its promise
Request(callData) ==
    [url     |-> WEBHOOK_URL,
     apiKey  |-> WEBHOOK_API_KEY,
     payload |-> Payload(callData),
     state   |-> "pending",
     logged  |-> "none"]

\* the synchronous part of the notifier, up to the await
Notify(callData) ==
    IF NotConfigured THEN dispatches
    ELSE Append(dispatches, Request(callData))

-----------------------------------------------------------------------------
(* Inputs *)

\* values of the attempt query parameter, besides an absent parameter
AttemptTexts ==
    {<<>>, <<"0">>, <<"1">>, <<"2">>, <<"3">>, <<"-", "1">>, <<"-", "2">>,
     <<"x">>, <<"1", "x">>}

\* the queries of the outcome events
Queries == {Query(a) : a \in AttemptTexts} \cup {NoQuery}

\* values of DialCallStatus; Undefined is a body without the field
DialStatuses == {Str("completed"), Str("no-answer"), Undefined}

-----------------------------------------------------------------------------
(* State *)

NoEvent == [route |-> "none"]

Init ==
    /\ \E p1 \in PhoneValues(1), p2 \in PhoneValues(2), p3 \in PhoneValues(3),
          t \in TimeoutValues, u \in UrlValues, k \in KeyValues :
          env = [PHONE_NUMBER_1 |-> p1, PHONE_NUMBER_2 |-> p2,
                 PHONE_NUMBER_3 |-> p3, DIAL_TIMEOUT |-> t,
                 WEBHOOK_URL |-> u, WEBHOOK_API_KEY |-> k]
    /\ FALLBACK_NUMBERS = FallbackNumbersOf(env)
    /\ DIAL_TIMEOUT = DialTimeoutOf(env)
    /\ WEBHOOK_URL = env.WEBHOOK_URL
    /\ WEBHOOK_API_KEY = env.WEBHOOK_API_KEY
    /\ phase = [c \in Calls |-> IF c = "CA1" THEN "idle" ELSE "absent"]
    /\ outstanding = [c \in Calls |-> <<>>]
    /\ dialed = [c \in Calls |-> <<>>]
    /\ faithful = [c \in Calls |-> TRUE]
    /\ notifyCalls = [c \in Calls |-> 0]
    /\ lastEvent = NoEvent
    /\ response = NoResponse
    /\ dispatches = <<>>
    /\ strays = 0
    /\ now = 0

\* the telephony platform acts on the directive it received for call c:
\* it dials the number and keeps the callback URL, or ends the call
PlatformTakes(c, twiml, endPhase) ==
    IF twiml.verb = "Dial"
    THEN /\ phase' = [phase EXCEPT ![c] = "dialing"]
         /\ outstanding' = [outstanding EXCEPT ![c] = twiml.action]
         /\ dialed' = [dialed EXCEPT ![c] = Append(@, twiml.number)]
    ELSE /\ phase' = [phase EXCEPT ![c] = endPhase]
         /\ UNCHANGED <<outstanding, dialed>>

\* variant: the first number is taken with FALLBACK_NUMBERS.shift(), which
\* removes it from the list
StartShifts(c) ==
    /\ phase[c] = "idle"
    /\ FALLBACK_NUMBERS' = IF FALLBACK_NUMBERS = <<>> THEN <<>>
                           ELSE Tail(FALLBACK_NUMBERS)
    /\ UNCHANGED <<env, DIAL_TIMEOUT, WEBHOOK_URL, WEBHOOK_API_KEY, faithful,
                   notifyCalls, dispatches, strays, now>>
    /\ lastEvent' = [route |-> "/voice/start", query |-> NoQuery,
                     body |-> Body(c), notifierCalls |-> 0, requests |-> 0]
    /\ response' = StartTwiml
    /\ PlatformTakes(c, StartTwiml, "exhausted")

\* app.post('/voice/start'): the inbound call event of call c
Start(c) ==
    /\ phase[c] = "idle"
    /\ UNCHANGED <<config, faithful, notifyCalls, dispatches, strays, now>>
    /\ lastEvent' = [route |-> "/voice/start", query |-> NoQuery,
                     body |-> Body(c),
                     notifierCalls |-> notifyCalls'[c] - notifyCalls[c],
                     requests |-> Len(dispatches') - Len(dispatches)]
    /\ response' = StartTwiml
    /\ PlatformTakes(c, StartTwiml, "exhausted")

\* app.post('/voice/handle-result') on one request.  The clock is read
\* only where the notifier builds its payload, and now is the instant of the
\* last reading.  Instants are numbered from the first reading: a reading
\* finds the instant of the reading before it or the next instant.
HandleResult(query, body) ==
    /\ now' \in IF Exhausted(query, body) /\ ~NotConfigured
                     /\ dispatches # <<>>
                THEN {t \in {now, now + 1} : t <= MaxClock}
                ELSE {now}
    /\ response' = HandleResultTwiml(query, body)
    /\ dispatches' = IF Exhausted(query, body) THEN Notify(body)
                     ELSE dispatches
    /\ notifyCalls' = IF Exhausted(query, body)
                      THEN [notifyCalls EXCEPT ![body.CallSid] = @ + 1]
                      ELSE notifyCalls
    /\ lastEvent' = [route |-> "/voice/handle-result", query |-> query,
                     body |-> body,
                     notifierCalls |-> notifyCalls'[body.CallSid]
                                         - notifyCalls[body.CallSid],
                     requests |-> Len(dispatches') - Len(dispatches)]

\* the platform reports the outcome of the outstanding dial of call c to the
\* callback URL of the directive that started it
PlatformCallback(c, status) ==
    /\ phase[c] = "dialing"
    /\ HandleResult(Query(outstanding[c]), BodyWith(c, status))
    /\ PlatformTakes(c, HandleResultTwiml(Query(outstanding[c]),
                                           BodyWith(c, status)),
                     IF IsCompleted(status) THEN "connected" ELSE "exhausted")
    /\ UNCHANGED <<config, faithful, strays>>

\* an outcome event that is not that callback: a duplicate, an out-of-order
\* delivery, or a request with a hand-written URL
StrayResult(c, query, status) ==
    /\ phase[c] # "absent"
    /\ strays < MaxStray
    /\ strays' = strays + 1
    /\ HandleResult(query, BodyWith(c, status))
    /\ faithful' = [faithful EXCEPT ![c] = FALSE]
    /\ UNCHANGED <<config, phase, outstanding, dialed>>

\* variant: a failed notification replaces the response of the handler
SettleSurfaces(i, state, logged) ==
    /\ i \in DOMAIN dispatches
    /\ dispatches[i].state = "pending"
    /\ dispatches' = [dispatches EXCEPT ![i].state = state,
                                        ![i].logged = logged]
    /\ response' = IF state \in {"http-error", "transport-error"}
                   THEN [verb |-> "Error"] ELSE response
    /\ UNCHANGED <<config, phase, outstanding, dialed, faithful, notifyCalls,
                   lastEvent, strays, now>>

\* the promise of fetch() settles and the notifier resumes after its await:
\* one promise job, which ends with the request in the given state and with
\* what the notifier itself has logged
Settle(i, state, logged) ==
    /\ i \in DOMAIN dispatches
    /\ dispatches[i].state = "pending"
    /\ dispatches' = [dispatches EXCEPT ![i].state = state,
                                        ![i].logged = logged]
    /\ UNCHANGED <<config, phase, outstanding, dialed, faithful, notifyCalls,
                   lastEvent, response, strays, now>>

\* response.ok: the notifier logs the success and returns
FetchOk(i) == Settle(i, "delivered", "success")

\* variant: a non-success status makes the notifier send the request again
FetchNotOkRetries(i) ==
    /\ i \in DOMAIN dispatches
    /\ dispatches[i].state = "pending"
    /\ dispatches' = Append([dispatches EXCEPT ![i].state = "http-error"],
                            [dispatches[i] EXCEPT !.state = "pending"])
    /\ UNCHANGED <<config, phase, outstanding, dialed, faithful, notifyCalls,
                   lastEvent, response, strays, now>>

\* !response.ok: the notifier throws, which rejects the promise it returned
FetchNotOk(i) == Settle(i, "http-error", "none")

\* fetch() rejects: the exception leaves the notifier at its await and
\* rejects the promise it returned
FetchRejects(i) == Settle(i, "transport-error", "none")

\* variant: the handler puts no .catch() on the notifier's promise; the
\* runtime reports the rejection as unhandled
CatchAbsent(i) ==
    /\ i \in DOMAIN dispatches
    /\ dispatches[i].state \in {"http-error", "transport-error"}
    /\ dispatches[i].logged = "none"
    /\ dispatches' = [dispatches EXCEPT ![i].logged = "unhandled"]
    /\ UNCHANGED <<config, phase, outstanding, dialed, faithful, notifyCalls,
                   lastEvent, response, strays, now>>

\* the reaction .catch(err => console.error(...)) of the handler, a later
\* promise job than the one that rejected the notifier's promise
Catch(i) ==
    /\ i \in DOMAIN dispatches
    /\ dispatches[i].state \in {"http-error", "transport-error"}
    /\ dispatches[i].logged = "none"
    /\ dispatches' = [dispatches EXCEPT ![i].logged = "error"]
    /\ UNCHANGED <<config, phase, outstanding, dialed, faithful, notifyCalls,
                   lastEvent, response, strays, now>>

Next ==
    \/ \E c \in Calls : Start(c)
    \/ \E c \in Calls, s \in DialStatuses : PlatformCallback(c, s)
    \/ \E c \in Calls, q \in Queries, s \in DialStatuses : StrayResult(c, q, s)
    \/ \E i \in DOMAIN dispatches : FetchOk(i)
    \/ \E i \in DOMAIN dispatches : FetchNotOk(i)
    \/ \E i \in DOMAIN dispatches : FetchRejects(i)
    \/ \E i \in DOMAIN dispatches : Catch(i)

Spec == Init /\ [][Next]_vars

-----------------------------------------------------------------------------
(* The outcome events over every value of DialCallStatus *)

\* Twilio's values of DialCallStatus, an unrecognized value (the text
\* 'undefined', which is not the missing field), a missing field
AllDialStatuses ==
    DialStatuses
        \cup {Str("busy"), Str("failed"), Str("canceled"), Str("undefined")}

\* the configurations with the default timeout whose notifier has both of
\* its settings or neither
InitOutcomes ==
    /\ Init
    /\ env.DIAL_TIMEOUT = Undefined
    /\ Truthy(WEBHOOK_URL) <=> Truthy(WEBHOOK_API_KEY)

NextOutcomes ==
    \/ \E c \in Calls : Start(c)
    \/ \E c \in Calls, s \in AllDialStatuses : PlatformCallback(c, s)
    \/ \E c \in Calls, q \in Queries, s \in AllDialStatuses :
           StrayResult(c, q, s)

SpecOutcomes == InitOutcomes /\ [][NextOutcomes]_vars

\* n copies of one character
Repeat(ch, n) == Elements([i \in 1..n |-> ch])

\* Attempt texts of indices far outside every list: -10^21 and 10^21, the
\* first magnitudes that a template literal writes in exponent form, and
\* -10^309, which is beyond the largest double.
FarTexts ==
    {<<"-", "1">> \o Repeat("0", 21),
     <<"1">> \o Repeat("0", 21),
     <<"-", "1">> \o Repeat("0", 309)}

FarQueries == {Query(a) : a \in FarTexts}

\* Outcome events whose query carries a far index, next to the platform's own.
NextFarIndex ==
    \/ \E c \in Calls : Start(c)
    \/ \E c \in Calls, s \in DialStatuses : PlatformCallback(c, s)
    \/ \E c \in Calls, q \in FarQueries, s \in DialStatuses :
           StrayResult(c, q, s)

SpecFarIndex == InitOutcomes /\ [][NextFarIndex]_vars

\* Attempt texts in the forms parseInt tells apart: empty, no digit, a sign
\* alone, digits followed by other characters, leading white space, a plus
\* or minus sign, a 0x prefix with and without hexadecimal digits, a
\* fraction, and plain digits.
PrefixTexts ==
    {<<>>, <<"x">>, <<"-">>, <<"1", "x">>, <<" ", "2">>, <<"\t", "1">>,
     <<"+", "1">>, <<"-", "0">>, <<"0", "x", "2">>, <<"0", "X", "1", "f">>,
     <<"0", "x", "g">>, <<"0", "x">>, <<"-", "0", "x", "2">>,
     <<"1", ".", "5">>, <<"2">>}

PrefixQueries == {Query(a) : a \in PrefixTexts} \cup {NoQuery}

\* Outcome events whose query carries one of these texts, next to the
\* platform's own.
NextPrefixes ==
    \/ \E c \in Calls : Start(c)
    \/ \E c \in Calls, s \in DialStatuses : PlatformCallback(c, s)
    \/ \E c \in Calls, q \in PrefixQueries, s \in DialStatuses :
           StrayResult(c, q, s)

SpecPrefixes == InitOutcomes /\ [][NextPrefixes]_vars

-----------------------------------------------------------------------------
(* A platform that only calls back the URLs it was given *)

\* the webhooks without the outcome events that are not callbacks
NextPlatform ==
    \/ \E c \in Calls : Start(c)
    \/ \E c \in Calls, s \in DialStatuses : PlatformCallback(c, s)
    \/ \E i \in DOMAIN dispatches : FetchOk(i)
    \/ \E i \in DOMAIN dispatches : FetchNotOk(i)
    \/ \E i \in DOMAIN dispatches : FetchRejects(i)
    \/ \E i \in DOMAIN dispatches : Catch(i)

\* the platform delivers the inbound call event of a call and eventually
\* reports the outcome of every dial it was told to make
PlatformReports ==
    \A c \in Calls :
        /\ WF_vars(Start(c))
        /\ WF_vars(\E s \in DialStatuses : PlatformCallback(c, s))

SpecPlatform == Init /\ [][NextPlatform]_vars /\ PlatformReports

-----------------------------------------------------------------------------
(* Two calls at once *)

\* as Init, with both calls about to arrive
InitTwoCalls ==
    /\ \E p1 \in PhoneValues(1), p2 \in PhoneValues(2), p3 \in PhoneValues(3),
          t \in TimeoutValues, u \in UrlValues, k \in KeyValues :
          env = [PHONE_NUMBER_1 |-> p1, PHONE_NUMBER_2 |-> p2,
                 PHONE_NUMBER_3 |-> p3, DIAL_TIMEOUT |-> t,
                 WEBHOOK_URL |-> u, WEBHOOK_API_KEY |-> k]
    /\ FALLBACK_NUMBERS = FallbackNumbersOf(env)
    /\ DIAL_TIMEOUT = DialTimeoutOf(env)
    /\ WEBHOOK_URL = env.WEBHOOK_URL
    /\ WEBHOOK_API_KEY = env.WEBHOOK_API_KEY
    /\ phase = [c \in Calls |-> "idle"]
    /\ outstanding = [c \in Calls |-> <<>>]
    /\ dialed = [c \in Calls |-> <<>>]
    /\ faithful = [c \in Calls |-> TRUE]
    /\ notifyCalls = [c \in Calls |-> 0]
    /\ lastEvent = NoEvent
    /\ response = NoResponse
    /\ dispatches = <<>>
    /\ strays = 0
    /\ now = 0

\* the webhooks of the two calls and the settling of their notifications,
\* in any interleaving
SpecTwoCalls == InitTwoCalls /\ [][NextPlatform]_vars

\* the runtime runs every promise job that is queued: the reaction of a
\* rejected promise is not postponed for ever.  Nothing makes a pending
\* request settle.
PromiseJobsRun == \A i \in 1..Cardinality(Calls) : WF_vars(Catch(i))

SpecPromiseJobs == SpecTwoCalls /\ PromiseJobsRun

-----------------------------------------------------------------------------
(* The other routes: /voice/save-voicemail, /voice/voicemail-transcription, *)
(* GET /health                                                              *)

\* <Response><Say>Thank you for your message. Goodbye.</Say><Hangup/>
\* </Response>
SaveVoicemailTwiml ==
    [verb |-> "Say", text |-> "Thank you for your message. Goodbye.",
     then |-> "Hangup"]

\* res.sendStatus(200)
StatusOk == [verb |-> "status", code |-> 200]

\* variant: the number of PHONE_NUMBER_i slots is reported, not the length of
\* the filtered list
HealthJsonCountsSlots ==
    [verb |-> "json", status |-> "healthy", numbers |-> 3,
     timeout |-> DIAL_TIMEOUT]

\* res.json({ status, numbers, timeout })
HealthJson ==
    [verb |-> "json", status |-> "healthy",
     numbers |-> Len(FALLBACK_NUMBERS), timeout |-> DIAL_TIMEOUT]

\* a request to a route that reads the configuration at most: it is
\* answered, and nothing else happens
Answer(route, body, reply) ==
    /\ UNCHANGED <<config, phase, outstanding, dialed, faithful, notifyCalls,
                   dispatches, strays, now>>
    /\ lastEvent' = [route |-> route, query |-> NoQuery, body |-> body,
                     notifierCalls |-> 0, requests |-> 0]
    /\ response' = reply

\* app.post('/voice/save-voicemail') with the metadata of call c
SaveVoicemail(c) ==
    /\ phase[c] # "absent"
    /\ Answer("/voice/save-voicemail", Body(c), SaveVoicemailTwiml)

\* app.post('/voice/voicemail-transcription') with the metadata of call c
VoicemailTranscription(c) ==
    /\ phase[c] # "absent"
    /\ Answer("/voice/voicemail-transcription", Body(c), StatusOk)

\* app.get('/health')
Health == Answer("/health", <<>>, HealthJson)

\* every route of the server and the settling of the notifications, with a
\* platform that calls back the URLs it was given
NextRoutes ==
    \/ \E c \in Calls : Start(c)
    \/ \E c \in Calls, s \in DialStatuses : PlatformCallback(c, s)
    \/ \E c \in Calls : SaveVoicemail(c)
    \/ \E c \in Calls : VoicemailTranscription(c)
    \/ Health
    \/ \E i \in DOMAIN dispatches : FetchOk(i)
    \/ \E i \in DOMAIN dispatches : FetchNotOk(i)
    \/ \E i \in DOMAIN dispatches : FetchRejects(i)
    \/ \E i \in DOMAIN dispatches : Catch(i)

SpecRoutes == Init /\ [][NextRoutes]_vars

-----------------------------------------------------------------------------
(* Every shape of the environment: variables unset, empty, or set *)

\* PHONE_NUMBER_i is unset, empty (a line `PHONE_NUMBER_i=` of .env), a
\* number, or the text 'undefined'
PhoneSlotValues(i) == PhoneValues(i) \cup {Str(""), Str("undefined")}

UrlSettings == UrlValues \cup {Str(""), Str("undefined")}

KeySettings == KeyValues \cup {Str(""), Str("undefined")}

\* as Init, over these values
InitEnvironment ==
    /\ \E p1 \in PhoneSlotValues(1), p2 \in PhoneSlotValues(2),
          p3 \in PhoneSlotValues(3), t \in TimeoutValues,
          u \in UrlSettings, k \in KeySettings :
          env = [PHONE_NUMBER_1 |-> p1, PHONE_NUMBER_2 |-> p2,
                 PHONE_NUMBER_3 |-> p3, DIAL_TIMEOUT |-> t,
                 WEBHOOK_URL |-> u, WEBHOOK_API_KEY |-> k]
    /\ FALLBACK_NUMBERS = FallbackNumbersOf(env)
    /\ DIAL_TIMEOUT = DialTimeoutOf(env)
    /\ WEBHOOK_URL = env.WEBHOOK_URL
    /\ WEBHOOK_API_KEY = env.WEBHOOK_API_KEY
    /\ phase = [c \in Calls |-> IF c = "CA1" THEN "idle" ELSE "absent"]
    /\ outstanding = [c \in Calls |-> <<>>]
    /\ dialed = [c \in Calls |-> <<>>]
    /\ faithful = [c \in Calls |-> TRUE]
    /\ notifyCalls = [c \in Calls |-> 0]
    /\ lastEvent = NoEvent
    /\ response = NoResponse
    /\ dispatches = <<>>
    /\ strays = 0
    /\ now = 0

\* one call, with a platform that calls back the URLs it was given
SpecEnvironment == InitEnvironment /\ [][NextPlatform]_vars

-----------------------------------------------------------------------------
(* Properties *)

\* the last request handled was an outcome event
LastIsResult == lastEvent.route = "/voice/handle-result"

LastIsStart == lastEvent.route = "/voice/start"

\* the outcome it reported, and the attempt index of its callback URL
LastStatus == Get(lastEvent.body, "DialCallStatus")

\* the attempt index as the handler computes it
LastIndex == AttemptOf(lastEvent.query)

\* an integer beyond every list and every index that is compared with one
Far == 1000000000

\* the integer of an index; an index of more than nine digits or an
\* infinite one counts as Far on its side of zero
Position(x) == IF IsSmall(x) THEN IntOf(x) ELSE IF x.neg THEN 0 - Far ELSE Far

LastAttempt == Position(LastIndex)

\* C1 (P1, progression): an outcome event that is not 'completed' and whose
\* attempt index i has i + 1 < N is answered by a dial directive for
\* candidate[i + 1] whose callback URL carries attempt index i + 1.
\* candidate[k] is FALLBACK_NUMBERS[k] as the array is indexed: for k < 0
\* there is no such element and the directive names no number.  The URL
\* carries i + 1 as the template literal writes it; for an index of at most
\* nine digits parseInt reads that text back as i + 1.
C1_Progression ==
    (LastIsResult /\ LastStatus # Str("completed") /\ LastAttempt + 1 < N)
    => /\ response.verb = "Dial"
       /\ response.number = Index(FALLBACK_NUMBERS, Num(LastAttempt + 1))
       /\ LastAttempt + 1 >= 0
          => response.number = FALLBACK_NUMBERS[LastAttempt + 2]
       /\ response.action = NumberToString(Plus1(LastIndex))
       /\ IsSmall(LastIndex)
          => parseInt(response.action) = Num(LastAttempt + 1)

C1_Witness ==
    /\ LastIsResult
    /\ LastStatus = Str("no-answer")
    /\ LastAttempt = 1
    /\ FALLBACK_NUMBERS = <<Str("A"), Str("B"), Str("C")>>
    /\ response.verb = "Dial"
    /\ response.number = Str("C")
    /\ response.action = <<"2">>

\* C2 (P2, termination on success): an outcome event with status 'completed'
\* is answered by the hang-up directive, never by a dial directive, whatever
\* attempt index its URL carries.
C2_TerminationOnSuccess ==
    (LastIsResult /\ LastStatus = Str("completed"))
    => response = Hangup /\ response.verb # "Dial"

\* a connected outcome at an index where a failure would have re-dialled
C2_Witness ==
    /\ LastIsResult
    /\ LastStatus = Str("completed")
    /\ LastAttempt + 1 < N
    /\ LastAttempt >= 0
    /\ response = Hangup

\* C3 (P3, exhaustion boundary): a non-connected outcome at attempt index
\* N - 1 is answered by the terminal directive without a dial, and the
\* notifier is invoked exactly once while handling it (one outbound request
\* when the notifier is configured); with N = 1 the first failed outcome
\* already takes this branch.
C3_ExhaustionBoundary ==
    (LastIsResult /\ LastStatus # Str("completed") /\ LastAttempt = N - 1)
    => /\ response = Hangup
       /\ lastEvent.notifierCalls = 1
       /\ lastEvent.requests = IF NotConfigured THEN 0 ELSE 1

C3_Witness ==
    /\ N = 1
    /\ LastIsResult
    /\ LastStatus = Str("no-answer")
    /\ lastEvent.query = Query(<<"0">>)
    /\ faithful["CA1"]
    /\ dialed["CA1"] = FALLBACK_NUMBERS
    /\ phase["CA1"] = "exhausted"
    /\ lastEvent.requests = 1
    /\ response = Hangup

\* the numbers named in a sequence of dial directives
Named(targets) == SelectSeq(targets, LAMBDA n : n # Undefined)

\* C4 (P4, monotonic order): in a call whose outcome events are exactly the
\* callbacks of the dial directives issued for it, the k-th dial directive
\* targets index k, and the numbers named are a prefix of the candidate list
\* in its order, none repeated, skipped or reordered.
C4_MonotonicOrder ==
    \A c \in Calls :
        faithful[c] =>
            /\ \A k \in 1..Len(dialed[c]) :
                   dialed[c][k] = Index(FALLBACK_NUMBERS, Num(k - 1))
            /\ Len(Named(dialed[c])) <= N
            /\ Named(dialed[c]) =
                   SubSeq(FALLBACK_NUMBERS, 1, Len(Named(dialed[c])))
            /\ N >= 1 => Named(dialed[c]) = dialed[c]

C4_Witness ==
    /\ faithful["CA1"]
    /\ phase["CA1"] = "exhausted"
    /\ FALLBACK_NUMBERS = <<Str("A"), Str("B"), Str("C")>>
    /\ dialed["CA1"] = <<Str("A"), Str("B"), Str("C")>>

\* C5 (StartCascade): with a non-empty candidate list the inbound call event
\* is answered by a dial directive for candidate[0] with the configured
\* timeout and a callback URL carrying attempt index 0, and no notification
\* is dispatched.
C5_StartCascade ==
    (LastIsStart /\ N >= 1)
    => /\ response.verb = "Dial"
       /\ response.number = FALLBACK_NUMBERS[1]
       /\ response.timeout = DIAL_TIMEOUT
       /\ response.timeout = DialTimeoutOf(env)
       /\ parseInt(response.action) = Num(0)
       /\ lastEvent.notifierCalls = 0
       /\ lastEvent.requests = 0

C5_Witness ==
    /\ LastIsStart
    /\ FALLBACK_NUMBERS = <<Str("B"), Str("C")>>
    /\ response = Dial(<<"0">>, Num(30), Str("B"))
    /\ dispatches = <<>>

\* C6 (index invariant): every dial directive the server emits targets an
\* index k with 0 <= k < N, for every size of the candidate list and every
\* attempt value a callback URL can carry.
C6_IndexInRange ==
    response.verb = "Dial"
    => \E k \in 0..(N - 1) :
           /\ parseInt(response.action) = Num(k)
           /\ response.number = FALLBACK_NUMBERS[k + 1]

\* C7 (empty candidate list at start): with an empty list the inbound call
\* event is answered by the fallback directive, without a dial directive.
C7_EmptyListFallsBack ==
    (LastIsStart /\ N = 0) => response = Hangup /\ response.verb # "Dial"

\* C8 (scenario C): with an empty list and a configured notifier, handling
\* the inbound call event dispatches a notification with totalAttempts = 0.
C8_EmptyListNotifies ==
    (LastIsStart /\ N = 0 /\ ~NotConfigured)
    => /\ lastEvent.requests = 1
       /\ \E i \in DOMAIN dispatches :
              dispatches[i].payload.totalAttempts = 0

\* C9 (P5, notifier isolation): the response to an outcome event that takes
\* the exhaustion branch is the hang-up directive in every state that
\* follows it: while the request is pending, after it was delivered, after a
\* non-success status and after a transport error.
C9_NotifierIsolation ==
    (LastIsResult /\ LastStatus # Str("completed") /\ LastAttempt + 1 >= N)
    => response = Hangup

C9_Witness ==
    /\ LastIsResult
    /\ LastStatus # Str("completed")
    /\ LastAttempt + 1 >= N
    /\ lastEvent.requests = 1
    /\ dispatches[Len(dispatches)].state = "transport-error"
    /\ response = Hangup

\* the requests issued for call c
RequestsOf(c) == {i \in DOMAIN dispatches : dispatches[i].payload.callSid = c}

\* C10 (at most one notification): in a call whose outcome events are the
\* callbacks of its dial directives, each delivered once, the notifier is
\* invoked at most once and at most one request is ever issued, also after
\* that request has failed.
C10_AtMostOneNotification ==
    \A c \in Calls :
        faithful[c] =>
            /\ notifyCalls[c] <= 1
            /\ Cardinality(RequestsOf(c)) <= 1

C10_Witness ==
    /\ faithful["CA1"]
    /\ phase["CA1"] = "exhausted"
    /\ notifyCalls["CA1"] = 1
    /\ \E i \in RequestsOf("CA1") : dispatches[i].state = "http-error"


\* C11 (notification only on exhaustion): the notifier is not invoked and no
\* request is issued while handling an inbound call event, a connected
\* outcome, or a failed outcome that is answered by a re-dial; a call that
\* connects at index i has received dial directives for indices 0..i only
\* and has no notification.
C11_NotifyOnlyOnExhaustion ==
    /\ (\/ LastIsStart
        \/ LastIsResult /\ LastStatus = Str("completed")
        \/ /\ LastIsResult
           /\ LastStatus # Str("completed")
           /\ response.verb = "Dial")
       => lastEvent.notifierCalls = 0 /\ lastEvent.requests = 0
    /\ \A c \in Calls :
           (faithful[c] /\ phase[c] = "connected")
           => /\ notifyCalls[c] = 0
              /\ RequestsOf(c) = {}
              /\ Len(dialed[c]) = IntOf(parseInt(outstanding[c])) + 1

\* scenario A: [A, B, C], no answer at index 0, connected at index 1
C11_Witness ==
    /\ FALLBACK_NUMBERS = <<Str("A"), Str("B"), Str("C")>>
    /\ ~NotConfigured
    /\ faithful["CA1"]
    /\ phase["CA1"] = "connected"
    /\ dialed["CA1"] = <<Str("A"), Str("B")>>
    /\ LastIsResult
    /\ LastStatus = Str("completed")
    /\ LastAttempt = 1
    /\ response = Hangup
    /\ dispatches = <<>>


\* C12 (uniform failure classification): for a fixed attempt index, every
\* outcome other than 'completed' (no-answer, busy, failed, canceled, an
\* unrecognized value, a missing field) is answered by the directive that
\* 'no-answer' gets at that index, with the same notifier invocation and the
\* same number of requests.
C12_UniformFailure ==
    (LastIsResult /\ LastStatus # Str("completed"))
    => LET c   == lastEvent.body.CallSid
           ref == BodyWith(c, Str("no-answer"))
       IN  /\ LastStatus \in AllDialStatuses
           /\ response = HandleResultTwiml(lastEvent.query, ref)
           /\ response = IF LastAttempt + 1 < N
                         THEN Dial(NumberToString(Plus1(LastIndex)),
                                   DIAL_TIMEOUT,
                                   Index(FALLBACK_NUMBERS, Plus1(LastIndex)))
                         ELSE Hangup
           /\ lastEvent.notifierCalls = IF LastAttempt + 1 < N THEN 0 ELSE 1
           /\ lastEvent.requests =
                  IF LastAttempt + 1 < N \/ NotConfigured THEN 0 ELSE 1

\* a body without DialCallStatus at the last index: exhaustion, one request
C12_Witness ==
    /\ LastIsResult
    /\ "DialCallStatus" \notin DOMAIN lastEvent.body
    /\ N = 2
    /\ LastAttempt = 1
    /\ response = Hangup
    /\ lastEvent.requests = 1
    /\ dispatches[Len(dispatches)].payload.dialStatus = Undefined


\* C13 (unconfigured notifier is a no-op): without a configured endpoint URL
\* no outbound request is ever issued and none is in a failed state, and an
\* outcome event that takes the exhaustion branch still invokes the notifier
\* once and is answered by the hang-up directive, as it is when the notifier
\* is configured.
C13_UnconfiguredNoOp ==
    ~Truthy(WEBHOOK_URL)
    => /\ dispatches = <<>>
       /\ (/\ LastIsResult
           /\ LastStatus # Str("completed")
           /\ LastAttempt + 1 >= N)
          => /\ response = Hangup
             /\ lastEvent.notifierCalls = 1
             /\ lastEvent.requests = 0

C13_Witness ==
    /\ WEBHOOK_URL = Undefined
    /\ WEBHOOK_API_KEY = Str("secret")
    /\ FALLBACK_NUMBERS = <<Str("A"), Str("C")>>
    /\ faithful["CA1"]
    /\ phase["CA1"] = "exhausted"
    /\ LastIsResult
    /\ LastStatus = Str("no-answer")
    /\ LastAttempt = 1
    /\ notifyCalls["CA1"] = 1
    /\ response = Hangup
    /\ dispatches = <<>>


\* C14 (scenario B): over the candidates [A, B, C], in a call whose outcome
\* events are the callbacks of its dial directives and all report a failure,
\* no request is issued before the outcome of index 2, and after it exactly
\* one request exists, with attemptedNumbers = [A, B, C], totalAttempts = 3
\* and callSid, from, to and dialStatus of that last outcome event.
C14_ExhaustionPayload ==
    \A c \in Calls :
        (/\ FALLBACK_NUMBERS = <<Str("A"), Str("B"), Str("C")>>
         /\ ~NotConfigured
         /\ faithful[c])
        => /\ phase[c] # "exhausted" => RequestsOf(c) = {}
           /\ phase[c] = "exhausted"
              => /\ Cardinality(RequestsOf(c)) = 1
                 /\ notifyCalls[c] = 1
                 /\ dialed[c] = <<Str("A"), Str("B"), Str("C")>>
                 /\ \A i \in RequestsOf(c) :
                        /\ dispatches[i].payload.event =
                               "all_numbers_unavailable"
                        /\ dispatches[i].payload.attemptedNumbers =
                               <<Str("A"), Str("B"), Str("C")>>
                        /\ dispatches[i].payload.totalAttempts = 3
                        /\ dispatches[i].url = WEBHOOK_URL
                        /\ lastEvent.body.CallSid = c
                           => /\ LastAttempt = 2
                              /\ dispatches[i].payload.callSid = c
                              /\ dispatches[i].payload.from =
                                     lastEvent.body.From
                              /\ dispatches[i].payload.to = lastEvent.body.To
                              /\ dispatches[i].payload.dialStatus = LastStatus

C14_Witness ==
    /\ FALLBACK_NUMBERS = <<Str("A"), Str("B"), Str("C")>>
    /\ faithful["CA1"]
    /\ phase["CA1"] = "exhausted"
    /\ LastIsResult
    /\ LastStatus = Str("no-answer")
    /\ LastAttempt = 2
    /\ Len(dispatches) = 1
    /\ dispatches[1].state = "delivered"
    /\ dispatches[1].payload.totalAttempts = 3
    /\ dispatches[1].payload.dialStatus = Str("no-answer")


\* C15 (non-blocking dispatch): the step of the handler that issues the
\* notification request is the step that sends the hang-up response, and it
\* ends with that request still pending and every earlier request as it
\* was; the response therefore never waits for the request to settle.
C15_NonBlockingDispatch ==
    [][Len(dispatches') > Len(dispatches)
       => /\ lastEvent'.route = "/voice/handle-result"
          /\ response' = Hangup
          /\ Len(dispatches') = Len(dispatches) + 1
          /\ dispatches'[Len(dispatches')].state = "pending"
          /\ SubSeq(dispatches', 1, Len(dispatches)) = dispatches]_vars

\* the response has been sent and the request is still pending
C15_Witness ==
    /\ LastIsResult
    /\ LastStatus # Str("completed")
    /\ LastAttempt + 1 >= N
    /\ response = Hangup
    /\ lastEvent.requests = 1
    /\ dispatches[Len(dispatches)].state = "pending"
    /\ dispatches[Len(dispatches)].logged = "none"


\* C16 (voicemail on exhaustion): when every configured number has been
\* tried and none answered, the directive returned takes a voicemail (a
\* recording directive), rather than only ending the call.
C16_VoicemailOnExhaustion ==
    (LastIsResult /\ LastStatus # Str("completed") /\ LastAttempt + 1 >= N)
    => response.verb = "Record"


\* C17 (termination): a call whose outcome events are the callbacks of its
\* dial directives reaches Connected or Exhausted after at most N dial
\* directives.  The bound is stated on the terminal state.
C17_TerminalWithinN ==
    \A c \in Calls :
        (faithful[c] /\ phase[c] \in {"connected", "exhausted"})
        => Len(dialed[c]) <= N

\* the eventuality of C17 alone: a call that has started ends
C17_EventuallyTerminal ==
    \A c \in Calls :
        (phase[c] = "idle") ~> (phase[c] \in {"connected", "exhausted"})

\* the bound of C17 for a non-empty candidate list
C17_TerminalWithinNonEmptyN ==
    \A c \in Calls :
        (faithful[c] /\ N >= 1) => Len(dialed[c]) <= N


\* the state of call c in the abstract machine
\* Idle -> Dialing(0), Dialing(i) -> Connected | Dialing(i+1) | Exhausted;
\* the index of Dialing is the one carried by the callback URL the platform
\* holds
AbsOf(ph, callback) ==
    CASE ph = "idle"      -> <<"Idle", 0>>
      [] ph = "dialing"   -> <<"Dialing", IntOf(parseInt(callback))>>
      [] ph = "connected" -> <<"Connected", 0>>
      [] ph = "exhausted" -> <<"Exhausted", 0>>
      [] OTHER            -> <<"Absent", 0>>

Abs(c) == AbsOf(phase[c], outstanding[c])

\* the abstract state of call c after the step
AbsNext(c) == AbsOf(phase'[c], outstanding'[c])

\* C18 (state-machine refinement): with a platform that calls back the URLs
\* it was given, every webhook handled changes the abstract state of its
\* call by one transition of the abstract machine: Idle -> Dialing(0);
\* Dialing(i) -> Connected on 'completed'; on any other outcome
\* Dialing(i) -> Dialing(i+1) if i + 1 < N and Dialing(i) -> Exhausted, with
\* the notifier invoked, otherwise.  Nothing leaves Connected or Exhausted.
C18_Refinement ==
    [][/\ lastEvent' # lastEvent
          => \E c \in Calls :
                 lastEvent'.body.CallSid = c /\ AbsNext(c) # Abs(c)
       /\ \A c \in Calls :
              AbsNext(c) # Abs(c)
              => /\ lastEvent'.body.CallSid = c
                 /\ \/ /\ Abs(c) = <<"Idle", 0>>
                       /\ AbsNext(c) = <<"Dialing", 0>>
                       /\ lastEvent'.route = "/voice/start"
                    \/ /\ Abs(c)[1] = "Dialing"
                       /\ lastEvent'.route = "/voice/handle-result"
                       /\ \/ /\ LastStatus' = Str("completed")
                             /\ AbsNext(c) = <<"Connected", 0>>
                          \/ /\ LastStatus' # Str("completed")
                             /\ Abs(c)[2] + 1 < N
                             /\ AbsNext(c) = <<"Dialing", Abs(c)[2] + 1>>
                          \/ /\ LastStatus' # Str("completed")
                             /\ ~(Abs(c)[2] + 1 < N)
                             /\ AbsNext(c) = <<"Exhausted", 0>>
                             /\ lastEvent'.notifierCalls = 1]_vars

\* Dialing(0) -> Dialing(1) -> Dialing(2) -> Exhausted
C18_Witness ==
    /\ N = 3
    /\ Abs("CA1") = <<"Exhausted", 0>>
    /\ outstanding["CA1"] = <<"2">>
    /\ Len(dialed["CA1"]) = 3
    /\ notifyCalls["CA1"] = 1


\* the directive a call receives for its next event when its events are
\* handled alone: by C5 the first is the dial of index 0; by C1, C2, C3 and
\* C4 a call that has received k dial directives is at index k - 1, and gets
\* the hang-up on 'completed', the dial of index k if k < N, the hang-up
\* otherwise
AloneDirective(received, isFirst, status) ==
    IF isFirst
    THEN [verb |-> "Dial", action |-> <<"0">>, timeout |-> DIAL_TIMEOUT,
          number |-> Index(FALLBACK_NUMBERS, Num(0))]
    ELSE IF status # Str("completed") /\ received < N
         THEN [verb |-> "Dial", action |-> NumberToString(Num(received)),
               timeout |-> DIAL_TIMEOUT,
               number |-> FALLBACK_NUMBERS[received + 1]]
         ELSE [verb |-> "Hangup"]

\* the platform's state of call c
Platform(c) == <<phase[c], outstanding[c], dialed[c]>>

\* C19 (independence of concurrent calls): in every interleaving of the
\* webhooks of two calls and of the settling of their notifications, each
\* webhook changes the state of its own call only, leaves the requests
\* already issued as they are, and is answered by the directive the call
\* would receive next if its events were handled alone; so each call
\* receives the sequence of directives of its run alone.
C19_Independence ==
    [][/\ lastEvent' # lastEvent
          => \E c \in Calls :
                 lastEvent'.body.CallSid = c /\ Platform(c)' # Platform(c)
       /\ \A c \in Calls :
              Platform(c)' # Platform(c)
              => /\ lastEvent'.body.CallSid = c
                 /\ \A d \in Calls \ {c} :
                        /\ Platform(d)' = Platform(d)
                        /\ notifyCalls'[d] = notifyCalls[d]
                 /\ SubSeq(dispatches', 1, Len(dispatches)) = dispatches
                 /\ response' = AloneDirective(Len(dialed[c]),
                                               phase[c] = "idle", LastStatus')
                 /\ \A i \in (DOMAIN dispatches') \ (DOMAIN dispatches) :
                        dispatches'[i].payload.callSid = c]_vars

\* the second call is answered while a notification of the first, already
\* exhausted, is in flight, and the calls are at different indices
C19_Witness ==
    /\ N = 2
    /\ phase["CA1"] = "exhausted"
    /\ \E i \in RequestsOf("CA1") : dispatches[i].state = "pending"
    /\ phase["CA2"] = "dialing"
    /\ dialed["CA2"] = FALLBACK_NUMBERS
    /\ lastEvent.body.CallSid = "CA2"
    /\ response.verb = "Dial"
    /\ response.action = <<"1">>


\* the directive as a function of the attempt index of the callback URL, the
\* reported outcome and the configuration
StatelessDirective(index, status) ==
    IF status = Str("completed") THEN [verb |-> "Hangup"]
    ELSE IF Position(index) + 1 < N
         THEN [verb |-> "Dial", action |-> NumberToString(Plus1(index)),
               timeout |-> DIAL_TIMEOUT,
               number |-> Index(FALLBACK_NUMBERS, Plus1(index))]
         ELSE [verb |-> "Hangup"]

\* C20 (statelessness): the directive returned for an outcome event is
\* determined by the attempt index of its URL, its outcome and the
\* configuration; an outcome event with the index and outcome of the event
\* handled before it, of the same call or of another and whatever requests
\* were issued or have settled in between, gets the identical directive.
C20_Stateless ==
    [][lastEvent'.route = "/voice/handle-result"
       => \A query \in {lastEvent'.query} :
          \A index \in {AttemptOf(query)} :
           LET outcome == Get(lastEvent'.body, "DialCallStatus")
           IN  /\ response' = StatelessDirective(index, outcome)
               /\ (/\ LastIsResult
                   /\ index = LastIndex
                   /\ outcome = LastStatus)
                  => response' = response]_vars

\* the second call fails at index 0 after the first call went through the
\* whole list and its notification failed, and is re-dialled all the same
C20_Witness ==
    /\ N = 2
    /\ phase["CA1"] = "exhausted"
    /\ \E i \in RequestsOf("CA1") : dispatches[i].state = "http-error"
    /\ LastIsResult
    /\ lastEvent.body.CallSid = "CA2"
    /\ LastAttempt = 0
    /\ LastStatus = Str("no-answer")
    /\ response = Dial(<<"1">>, DIAL_TIMEOUT, FALLBACK_NUMBERS[2])


\* C21 (callback index matches dialed candidate): in every dial directive,
\* from /voice/start or /voice/handle-result, the attempt index that the
\* callback URL decodes to is the index at which the directive's number was
\* read from the candidate list; when the directive names a number, that
\* index is a position of the list and the number is the one at it.
C21_CallbackMatchesCandidate ==
    response.verb = "Dial"
    => LET k    == parseInt(response.action)
           read == IF LastIsStart THEN Num(0) ELSE Plus1(LastIndex)
       IN  /\ k = read
           /\ response.number = Index(FALLBACK_NUMBERS, k)
           /\ response.number # Undefined
              => /\ IsSmall(k)
                 /\ IntOf(k) \in 0..(N - 1)
                 /\ FALLBACK_NUMBERS[IntOf(k) + 1] = response.number


\* C22 (sequential single-target dialing): every response to an inbound call
\* event or an outcome event is either a dial directive or the end-call
\* directive, and a dial directive names exactly one candidate of the list.
C22_SingleTarget ==
    (LastIsStart \/ LastIsResult)
    => /\ response.verb \in {"Dial", "Hangup"}
       /\ response.verb = "Dial"
          => \E k \in 1..N : response.number = FALLBACK_NUMBERS[k]

\* the part of C22 that the code keeps: one directive per response, with one
\* number noun; the noun is empty only with an empty list or under a
\* negative callback index
C22_OneDirectiveOneNoun ==
    (LastIsStart \/ LastIsResult)
    => /\ response.verb \in {"Dial", "Hangup"}
       /\ (response.verb = "Dial" /\ response.number = Undefined)
          => N = 0 \/ Head(response.action) = "-"
       /\ (response.verb = "Dial" /\ response.number # Undefined)
          => \E k \in 1..N : response.number = FALLBACK_NUMBERS[k]


\* the failed states of a request
Failed == {"http-error", "transport-error"}

\* the i-th request exists and has failed
HasFailed(i) ==
    IF i \in DOMAIN dispatches THEN dispatches[i].state \in Failed ELSE FALSE

\* what was logged on the outcome of the i-th request
LoggedAt(i) ==
    IF i \in DOMAIN dispatches THEN dispatches[i].logged ELSE "none"

\* C23 (notification failure is terminal and contained): a pending request
\* that gets a non-success status or a transport error ends in one failed
\* state, which no later step changes; the handler's catch then logs the
\* error, in a later promise job, and a failed request is not left without
\* that log.  Neither of the two steps issues a request (no retry), and both
\* leave the response, the last event and the state of every call as they
\* were.  A request changes in these two steps and when it is delivered,
\* and never in its URL or payload.
C23_FailureContained ==
    /\ [][\A i \in DOMAIN dispatches :
               dispatches'[i] # dispatches[i]
               => /\ dispatches'[i].url = dispatches[i].url
                  /\ dispatches'[i].payload = dispatches[i].payload
                  /\ \/ /\ dispatches[i].state = "pending"
                        /\ dispatches'[i].state = "delivered"
                        /\ dispatches'[i].logged = "success"
                     \/ /\ dispatches[i].state = "pending"
                        /\ dispatches'[i].state \in Failed
                        /\ dispatches'[i].logged = "none"
                     \/ /\ dispatches[i].state \in Failed
                        /\ dispatches[i].logged = "none"
                        /\ dispatches'[i].state = dispatches[i].state
                        /\ dispatches'[i].logged = "error"
                  /\ dispatches'[i].state \in Failed
                     => /\ Len(dispatches') = Len(dispatches)
                        /\ \A j \in DOMAIN dispatches \ {i} :
                               dispatches'[j] = dispatches[j]
                        /\ response' = response
                        /\ lastEvent' = lastEvent
                        /\ phase' = phase
                        /\ outstanding' = outstanding
                        /\ notifyCalls' = notifyCalls]_vars
    /\ \A i \in 1..Cardinality(Calls) :
           HasFailed(i) ~> (HasFailed(i) /\ LoggedAt(i) = "error")

\* one notification ended by a non-success status and one by a transport
\* error, both logged, after the hang-up of the second call; the first was
\* logged while the second was pending or only after the second had failed
C23_Witness ==
    /\ Len(dispatches) = 2
    /\ dispatches[1].state = "http-error"
    /\ dispatches[1].logged = "error"
    /\ dispatches[2].state = "transport-error"
    /\ dispatches[2].logged = "error"
    /\ phase["CA1"] = "exhausted"
    /\ phase["CA2"] = "exhausted"
    /\ LastIsResult
    /\ response = Hangup


\* C24 (health endpoint): GET /health answers status 'healthy', numbers = N,
\* the length of the candidate list built at start-up, and timeout = the
\* configured per-attempt timeout; handling it changes neither the
\* configuration nor the state of any call, emits no dial directive, invokes
\* no notifier and issues no request.
C24_Health ==
    [][lastEvent'.route = "/health"
       => /\ response' = [verb |-> "json", status |-> "healthy",
                          numbers |-> N, timeout |-> DIAL_TIMEOUT]
          /\ response'.numbers = Len(FallbackNumbersOf(env))
          /\ response'.timeout = DialTimeoutOf(env)
          /\ lastEvent' # lastEvent
             => /\ config' = config
                /\ phase' = phase
                /\ outstanding' = outstanding
                /\ dialed' = dialed
                /\ notifyCalls' = notifyCalls
                /\ dispatches' = dispatches]_vars

\* asked in the middle of a call, with one slot unset and DIAL_TIMEOUT=30
C24_Witness ==
    /\ lastEvent.route = "/health"
    /\ env.PHONE_NUMBER_2 = Undefined
    /\ FALLBACK_NUMBERS = <<Str("A"), Str("C")>>
    /\ response.status = "healthy"
    /\ response.numbers = 2
    /\ response.timeout = Num(30)
    /\ phase["CA1"] = "dialing"
    /\ outstanding["CA1"] = <<"1">>


\* C25 (fixed timeout): every dial directive, for candidate 0 or for a later
\* candidate, after any outcome and under any attempt index, carries the
\* process-wide timeout, which is the value computed from DIAL_TIMEOUT at
\* start-up (20 when it is unset).
C25_FixedTimeout ==
    response.verb = "Dial"
    => /\ response.timeout = DIAL_TIMEOUT
       /\ response.timeout = DialTimeoutOf(env)

\* the third directive of a call configured with DIAL_TIMEOUT=30
C25_Witness ==
    /\ DialTimeoutOf(env) = Num(30)
    /\ faithful["CA1"]
    /\ dialed["CA1"] = <<Str("A"), Str("B"), Str("C")>>
    /\ phase["CA1"] = "dialing"
    /\ LastIsResult
    /\ LastStatus = Str("no-answer")
    /\ response = Dial(<<"2">>, Num(30), Str("C"))


\* C26 (configuration frame): no step of the server, whether a handler of
\* /voice/start, /voice/handle-result, /voice/save-voicemail,
\* /voice/voicemail-transcription or /health, or the dispatch or settling of
\* a notification, changes the candidate list or the timeout; after every
\* step both are the values computed from the environment at start-up.
C26_ConfigurationFrame ==
    [][/\ FALLBACK_NUMBERS' = FALLBACK_NUMBERS
       /\ DIAL_TIMEOUT' = DIAL_TIMEOUT
       /\ FALLBACK_NUMBERS' = FallbackNumbersOf(env)
       /\ DIAL_TIMEOUT' = DialTimeoutOf(env)]_vars

\* after a whole cascade, its notification and a request to another route
C26_Witness ==
    /\ lastEvent.route = "/voice/voicemail-transcription"
    /\ phase["CA1"] = "exhausted"
    /\ dialed["CA1"] = <<Str("A"), Str("B"), Str("C")>>
    /\ Len(dispatches) = 1
    /\ dispatches[1].state = "delivered"
    /\ FALLBACK_NUMBERS = <<Str("A"), Str("B"), Str("C")>>
    /\ DIAL_TIMEOUT = Num(30)


\* C27 (out-of-range high index): an outcome event that is not 'completed'
\* and whose attempt index i is N - 1 or any larger value, however far
\* beyond the list, is answered by the hang-up directive and by no dial
\* directive, and the notifier is invoked once while handling it (one
\* request when the notifier is configured).
C27_HighIndexExhausts ==
    (LastIsResult /\ LastStatus # Str("completed") /\ LastAttempt >= N - 1)
    => /\ response.verb # "Dial"
       /\ response = Hangup
       /\ lastEvent.notifierCalls = 1
       /\ lastEvent.requests = IF NotConfigured THEN 0 ELSE 1

\* attempt=3 over a list of one number, while that number is being dialled
C27_Witness ==
    /\ N = 1
    /\ LastIsResult
    /\ lastEvent.query = Query(<<"3">>)
    /\ LastStatus = Str("no-answer")
    /\ ~faithful["CA1"]
    /\ phase["CA1"] = "dialing"
    /\ response = Hangup
    /\ lastEvent.notifierCalls = 1
    /\ lastEvent.requests = 1
    /\ dispatches[Len(dispatches)].payload.totalAttempts = 1


\* the text is a decimal integer, with an optional minus sign
IsInteger(text) ==
    LET u == IF text # <<>> /\ Head(text) = "-" THEN Tail(text) ELSE text
    IN  u # <<>> /\ \A i \in 1..Len(u) : DigitValue(u[i], 10) >= 0

\* the text without one leading sign
Unsigned(text) ==
    IF text # <<>> /\ Head(text) \in {"-", "+"} THEN Tail(text) ELSE text

\* after leading white space and an optional sign the text begins with a
\* decimal digit
StartsWithInteger(text) ==
    LET u == Unsigned(StripLeft(text))
    IN  u # <<>> /\ DigitValue(u[1], 10) >= 0

\* the digits after a 0x or 0X prefix, or <<>> when the text has no such
\* prefix
HexDigits(u) ==
    IF Len(u) >= 3 /\ u[1] = "0" /\ u[2] \in {"x", "X"}
    THEN SubSeq(u, 3, Len(u)) ELSE <<>>

\* the text is an integer literal: an optional sign, then decimal digits, or
\* 0x and hexadecimal digits
IsLiteral(text) ==
    LET u == Unsigned(text)
    IN  \/ u # <<>> /\ \A i \in 1..Len(u) : DigitValue(u[i], 10) >= 0
        \/ /\ HexDigits(u) # <<>>
           /\ \A i \in 3..Len(u) : DigitValue(u[i], 16) >= 0

\* the natural number written by the digits u in the radix
RECURSIVE ValueIn(_, _)
ValueIn(u, radix) ==
    IF u = <<>> THEN 0
    ELSE radix * ValueIn(SubSeq(u, 1, Len(u) - 1), radix)
             + DigitValue(u[Len(u)], radix)

\* the integer an integer literal writes
LiteralValue(text) ==
    LET u == Unsigned(text)
        m == IF \A i \in 1..Len(u) : DigitValue(u[i], 10) >= 0
             THEN ValueIn(u, 10) ELSE ValueIn(HexDigits(u), 16)
    IN  IF Head(text) = "-" THEN 0 - m ELSE m

\* the integer of the longest prefix of the text, leading white space
\* skipped, that is an integer literal; 0 when no prefix is one
PrefixValue(text) ==
    LET t  == StripLeft(text)
        ks == {k \in 1..Len(t) : IsLiteral(SubSeq(t, 1, k))}
    IN  IF ks = {} THEN 0
        ELSE LiteralValue(SubSeq(t, 1, CHOOSE k \in ks :
                                           \A j \in ks : j <= k))

\* the handling of a failed outcome at attempt index 0: the re-dial of
\* candidate[1] with callback index 1 if N >= 2, the exhaustion branch
\* otherwise
HandledAsIndexZero ==
    IF N >= 2
    THEN /\ response.verb = "Dial"
         /\ response.number = FALLBACK_NUMBERS[2]
         /\ parseInt(response.action) = Num(1)
         /\ lastEvent.notifierCalls = 0
    ELSE /\ response = Hangup
         /\ lastEvent.notifierCalls = 1
         /\ lastEvent.requests = IF NotConfigured THEN 0 ELSE 1

\* C28 as stated (default attempt index): a failed outcome event whose
\* attempt parameter is missing, empty or not a number is handled as at
\* attempt index 0.
C28_DefaultIndex ==
    (/\ LastIsResult
     /\ LastStatus # Str("completed")
     /\ \/ "attempt" \notin DOMAIN lastEvent.query
        \/ ~IsInteger(lastEvent.query.attempt.value))
    => HandledAsIndexZero

\* C28 as amended: a failed outcome event whose attempt parameter is missing
\* or empty, or after leading white space and an optional sign does not
\* begin with a decimal digit, is handled as at attempt index 0; every
\* other parameter, numeric or not, is handled as at the integer of its
\* longest prefix that is an integer literal (stated here for texts of at
\* most nine characters, whose integers are exact).
C28_DefaultIndexNoLeadingInteger ==
    (LastIsResult /\ LastStatus # Str("completed"))
    => LET missing  == "attempt" \notin DOMAIN lastEvent.query
           expected == IF missing THEN 0
                       ELSE PrefixValue(lastEvent.query.attempt.value)
       IN  /\ (\/ missing
               \/ ~StartsWithInteger(lastEvent.query.attempt.value))
              => /\ LastAttempt = 0
                 /\ HandledAsIndexZero
           /\ (missing \/ Len(lastEvent.query.attempt.value) <= 9)
              => /\ LastAttempt = expected
                 /\ expected = 0 => HandledAsIndexZero
                 /\ response =
                        HandleResultTwiml(
                            Query(NumberToString(Num(expected))),
                            lastEvent.body)

\* attempt=x over three numbers: candidate[1] is dialled with callback 1
C28_Witness ==
    /\ N = 3
    /\ LastIsResult
    /\ lastEvent.query = Query(<<"x">>)
    /\ LastStatus = Str("no-answer")
    /\ response = Dial(<<"1">>, DIAL_TIMEOUT, Str("B"))
    /\ lastEvent.notifierCalls = 0


\* C29 (duplicate delivery): every outcome event handled, a callback of the
\* platform or a duplicate, out-of-order or hand-written one, that is not
\* 'completed' and has attempt index + 1 >= N invokes the notifier once more
\* and (when the notifier is configured) issues one more request, however
\* many were issued for the call before; every other outcome event issues
\* none.  So the dispatches attempted for a call number the exhaustion
\* events handled for it.  A failed outcome event of an index the call has
\* already passed is answered by the dial directive issued the first time.
C29_DuplicateDelivery ==
    [][(/\ lastEvent'.route = "/voice/handle-result"
        /\ strays' # strays \/ phase' # phase \/ outstanding' # outstanding)
       => \A query \in {lastEvent'.query} :
          \A index \in {Position(AttemptOf(query))} :
           LET c       == lastEvent'.body.CallSid
               outcome == Get(lastEvent'.body, "DialCallStatus")
               exhaust == outcome # Str("completed") /\ index + 1 >= N
           IN  /\ notifyCalls'[c] =
                      notifyCalls[c] + (IF exhaust THEN 1 ELSE 0)
               /\ Len(dispatches') =
                      Len(dispatches)
                          + (IF exhaust /\ ~NotConfigured THEN 1 ELSE 0)
               /\ SubSeq(dispatches', 1, Len(dispatches)) = dispatches
               /\ exhaust => response' = Hangup
               /\ (/\ outcome # Str("completed")
                   /\ faithful[c]
                   /\ index >= 0
                   /\ index + 2 <= Len(dialed[c]))
                  => /\ response'.verb = "Dial"
                     /\ response'.number = dialed[c][index + 2]
                     /\ response'.action = NumberToString(Num(index + 1))
                     /\ response'.timeout = DIAL_TIMEOUT]_vars

\* the last failed outcome of a call over two numbers is handled twice: two
\* invocations, two requests
C29_Witness ==
    /\ N = 2
    /\ phase["CA1"] = "exhausted"
    /\ strays = 1
    /\ LastIsResult
    /\ LastAttempt = 1
    /\ LastStatus = Str("no-answer")
    /\ notifyCalls["CA1"] = 2
    /\ Cardinality(RequestsOf("CA1")) = 2
    /\ dispatches[1].payload = dispatches[2].payload

\* an earlier failed outcome is handled again and the same directive comes
\* back
C29_WitnessRedial ==
    /\ N = 3
    /\ dialed["CA1"] = <<Str("A"), Str("B"), Str("C")>>
    /\ strays = 1
    /\ LastIsResult
    /\ LastAttempt = 0
    /\ LastStatus = Str("no-answer")
    /\ response = Dial(<<"1">>, DIAL_TIMEOUT, Str("B"))
    /\ notifyCalls["CA1"] = 0


\* C30 (payload independent of dial history): in every request issued,
\* attemptedNumbers is the whole configured candidate list and totalAttempts
\* is N, whatever attempt index the triggering outcome event carried and
\* however many numbers the call was told to dial; callSid, from, to and
\* dialStatus are those of the triggering event, and timestamp is the instant
\* at which that event was handled.
C30_PayloadIgnoresHistory ==
    /\ \A i \in DOMAIN dispatches :
           /\ dispatches[i].payload.attemptedNumbers = FALLBACK_NUMBERS
           /\ dispatches[i].payload.attemptedNumbers = FallbackNumbersOf(env)
           /\ dispatches[i].payload.totalAttempts = N
           /\ dispatches[i].payload.event = "all_numbers_unavailable"
    /\ (LastIsResult /\ lastEvent.requests = 1)
       => LET p == dispatches[Len(dispatches)].payload
          IN  /\ p.callSid = lastEvent.body.CallSid
              /\ p.from = lastEvent.body.From
              /\ p.to = lastEvent.body.To
              /\ p.dialStatus = LastStatus
              /\ p.timestamp = now

\* attempt=3 arrives while the first of three numbers is being dialled: the
\* payload lists three attempted numbers after one dial
C30_Witness ==
    /\ FALLBACK_NUMBERS = <<Str("A"), Str("B"), Str("C")>>
    /\ dialed["CA1"] = <<Str("A")>>
    /\ phase["CA1"] = "dialing"
    /\ LastIsResult
    /\ lastEvent.query = Query(<<"3">>)
    /\ LastStatus = Str("no-answer")
    /\ lastEvent.requests = 1
    /\ dispatches[1].payload.attemptedNumbers =
           <<Str("A"), Str("B"), Str("C")>>
    /\ dispatches[1].payload.totalAttempts = 3
    /\ dispatches[1].payload.dialStatus = Str("no-answer")
    /\ dispatches[1].payload.callSid = "CA1"
    /\ dispatches[1].payload.timestamp = now


\* the setting is missing: the variable is unset or empty
Missing(v) == v = Undefined \/ v = Str("")

\* C31 (credential required for dispatch): a request exists only when the
\* endpoint URL and the API key are both set, and every request carries the
\* configured key in its WEBHOOK_API_KEY header and goes to the configured
\* URL; with the URL set and the key unset or empty, no request is ever
\* issued, none is in a failed state, and an outcome event that takes the
\* exhaustion branch still invokes the notifier once and is answered by the
\* hang-up directive.
C31_CredentialRequired ==
    /\ \A i \in DOMAIN dispatches :
           /\ ~Missing(env.WEBHOOK_URL)
           /\ ~Missing(env.WEBHOOK_API_KEY)
           /\ dispatches[i].apiKey = env.WEBHOOK_API_KEY
           /\ ~Missing(dispatches[i].apiKey)
           /\ dispatches[i].url = env.WEBHOOK_URL
    /\ (~Missing(env.WEBHOOK_URL) /\ Missing(env.WEBHOOK_API_KEY))
       => /\ dispatches = <<>>
          /\ (/\ LastIsResult
              /\ LastStatus # Str("completed")
              /\ LastAttempt + 1 >= N)
             => /\ response = Hangup
                /\ lastEvent.notifierCalls = 1
                /\ lastEvent.requests = 0

\* the URL is set and the key is empty: the call is exhausted, the notifier
\* was invoked, nothing was sent
C31_Witness ==
    /\ env.WEBHOOK_URL = Str("https://n8n.example/webhook")
    /\ env.WEBHOOK_API_KEY = Str("")
    /\ N = 2
    /\ phase["CA1"] = "exhausted"
    /\ LastIsResult
    /\ LastStatus = Str("no-answer")
    /\ LastAttempt = 1
    /\ notifyCalls["CA1"] = 1
    /\ response = Hangup
    /\ dispatches = <<>>

\* both are set: the request carries the key
C31_WitnessSent ==
    /\ env.WEBHOOK_API_KEY = Str("secret")
    /\ phase["CA1"] = "exhausted"
    /\ Len(dispatches) = 1
    /\ dispatches[1].apiKey = Str("secret")
    /\ dispatches[1].url = Str("https://n8n.example/webhook")


\* the slots PHONE_NUMBER_1..3 as configured
Slots == <<env.PHONE_NUMBER_1, env.PHONE_NUMBER_2, env.PHONE_NUMBER_3>>

\* the slots that hold a number
SetSlots == {i \in 1..3 : ~Missing(Slots[i])}

\* the k-th set slot, in slot order
KthSetSlot(k) ==
    CHOOSE i \in SetSlots : Cardinality({j \in SetSlots : j < i}) = k - 1

\* C32 (candidate list construction): the candidate list is the sequence of
\* the slots PHONE_NUMBER_1..3 without the unset and the empty ones, in slot
\* order: its length N is the number of set slots, its k-th entry is the
\* value of the k-th set slot, and no entry is undefined or empty.
C32_ListConstruction ==
    /\ N = Cardinality(SetSlots)
    /\ \A k \in 1..N :
           /\ FALLBACK_NUMBERS[k] = Slots[KthSetSlot(k)]
           /\ ~Missing(FALLBACK_NUMBERS[k])
    /\ \A k \in 1..(N - 1) : KthSetSlot(k) < KthSetSlot(k + 1)

\* slots 1 and 3 set, slot 2 empty: the list is [P1, P3], N = 2, and the
\* cascade dials P1 then P3
C32_Witness ==
    /\ env.PHONE_NUMBER_1 = Str("A")
    /\ env.PHONE_NUMBER_2 = Str("")
    /\ env.PHONE_NUMBER_3 = Str("C")
    /\ FALLBACK_NUMBERS = <<Str("A"), Str("C")>>
    /\ N = 2
    /\ dialed["CA1"] = <<Str("A"), Str("C")>>
    /\ phase["CA1"] = "exhausted"

====
